---- MODULE Spec2Model ----
(***************************************************************************)
(* Model of src/open_r1/grpo.py: the two reward functions                  *)
(* (accuracy_reward, format_reward), the reward registry and main.         *)
(*                                                                         *)
(* Text is modelled as a sequence of tokens.  The four tags of the format  *)
(* are one token each (none of the other tokens contains '<' or '>', so a  *)
(* tag occurs in a text exactly where its token does); "\n" is the newline *)
(* character, "1" and "2" are mathematical expressions the answer parser   *)
(* extracts, "x" is any other character.                                   *)
(***************************************************************************)
EXTENDS Integers, Sequences, FiniteSets, TLC

\* ------------------------------------------------------------------ bounds
MaxCompletions == 2
MaxCalls == 2

\* ------------------------------------------------------------------ text
OpenThink == "<think>"
CloseThink == "</think>"
OpenAnswer == "<answer>"
CloseAnswer == "</answer>"
Newline == "\n"

None == "None"

Min(a, b) == IF a <= b THEN a ELSE b

\* Python's float(bool) and the literals 1.0 / 0.0
float(b) == IF b THEN "1.0" ELSE "0.0"

\* -------------------------------------------------- math_verify (library)
\* parse(text, extraction_mode="first_match"): the first expression of the
\* text as a one-element list, the empty list when the text holds none.
IsExpression(tok) == tok \in {"1", "2"}

RECURSIVE FirstMatch(_, _)
FirstMatch(text, i) ==
    IF i > Len(text) THEN <<>>
    ELSE IF IsExpression(text[i]) THEN <<text[i]>>
    ELSE FirstMatch(text, i + 1)

parse(text) == FirstMatch(text, 1)

\* verify(target, gold): some parsed target equals some parsed gold.
verify(answer_parsed, gold_parsed) ==
    \E i \in 1..Len(answer_parsed) : \E j \in 1..Len(gold_parsed) :
        answer_parsed[i] = gold_parsed[j]

\* ------------------------------------------------------- accuracy_reward
\* contents = [completion[0]["content"] for completion in completions]
ContentsOf(completions) ==
    [i \in 1..Len(completions) |-> completions[i][1].content]

\* The line print("Failed to parse gold solution: ", sol) writes.
FailedLine(sol) == <<"Failed to parse gold solution: ", sol>>

\* Mutant: the gold solution is verified against itself.
AccuracyStepGoldAgainstGold(k, content, sol) ==
    LET gold_parsed == parse(sol) IN
    IF Len(gold_parsed) # 0
    THEN LET answer_parsed == parse(content) IN
         [reward |-> float(verify(gold_parsed, gold_parsed)),
          out    |-> <<>>,
          lib    |-> << [fn |-> "parse", pair |-> k, of |-> "solution", arg |-> sol],
                        [fn |-> "parse", pair |-> k, of |-> "content", arg |-> content],
                        [fn |-> "verify", pair |-> k, of |-> "parsed",
                         arg |-> <<gold_parsed, gold_parsed>>] >>]
    ELSE [reward |-> "1.0",
          out    |-> <<FailedLine(sol)>>,
          lib    |-> << [fn |-> "parse", pair |-> k, of |-> "solution", arg |-> sol] >>]

\* Mutant: an unparseable gold solution is scored 0.0.
AccuracyStepZeroOnUnparseable(k, content, sol) ==
    LET gold_parsed == parse(sol) IN
    IF Len(gold_parsed) # 0
    THEN LET answer_parsed == parse(content) IN
         [reward |-> float(verify(answer_parsed, gold_parsed)),
          out    |-> <<>>,
          lib    |-> << [fn |-> "parse", pair |-> k, of |-> "solution", arg |-> sol],
                        [fn |-> "parse", pair |-> k, of |-> "content", arg |-> content],
                        [fn |-> "verify", pair |-> k, of |-> "parsed",
                         arg |-> <<answer_parsed, gold_parsed>>] >>]
    ELSE [reward |-> "0.0",
          out    |-> <<FailedLine(sol)>>,
          lib    |-> << [fn |-> "parse", pair |-> k, of |-> "solution", arg |-> sol] >>]

\* One iteration of the loop over zip(contents, solution): the reward it
\* appends, what it prints, and the library calls it makes (k is the
\* position of the pair).
AccuracyStep(k, content, sol) ==
    LET gold_parsed == parse(sol) IN
    IF Len(gold_parsed) # 0
    THEN LET answer_parsed == parse(content) IN
         [reward |-> float(verify(answer_parsed, gold_parsed)),
          out    |-> <<>>,
          lib    |-> << [fn |-> "parse", pair |-> k, of |-> "solution", arg |-> sol],
                        [fn |-> "parse", pair |-> k, of |-> "content", arg |-> content],
                        [fn |-> "verify", pair |-> k, of |-> "parsed",
                         arg |-> <<answer_parsed, gold_parsed>>] >>]
    ELSE [reward |-> "1.0",
          out    |-> <<FailedLine(sol)>>,
          lib    |-> << [fn |-> "parse", pair |-> k, of |-> "solution", arg |-> sol] >>]

\* zip(contents, solution) stops at the shorter of the two.
ZipLen(contents, solution) == Min(Len(contents), Len(solution))

\* Mutant: each reward is put at the front of the list (rewards.insert(0, reward)).
RECURSIVE AccuracyLoopPrepends(_, _, _, _)
AccuracyLoopPrepends(contents, solution, k, acc) ==
    IF k > ZipLen(contents, solution) THEN acc
    ELSE LET s == AccuracyStep(k, contents[k], solution[k]) IN
         AccuracyLoopPrepends(contents, solution, k + 1,
                              [rewards |-> <<s.reward>> \o acc.rewards,
                               out     |-> acc.out \o s.out,
                               lib     |-> acc.lib \o s.lib])

RECURSIVE AccuracyLoop(_, _, _, _)
AccuracyLoop(contents, solution, k, acc) ==
    IF k > ZipLen(contents, solution) THEN acc
    ELSE LET s == AccuracyStep(k, contents[k], solution[k]) IN
         AccuracyLoop(contents, solution, k + 1,
                      [rewards |-> Append(acc.rewards, s.reward),
                       out     |-> acc.out \o s.out,
                       lib     |-> acc.lib \o s.lib])

accuracy_reward(completions, solution) ==
    AccuracyLoop(ContentsOf(completions), solution, 1,
                 [rewards |-> <<>>, out |-> <<>>, lib |-> <<>>])

\* --------------------------------------------------------- format_reward
\* pattern = r"^<think>.*?</think><answer>.*?</answer>$"
pattern ==
    << [op |-> "bol"],
       [op |-> "lit", tok |-> OpenThink],
       [op |-> "dotstar"],
       [op |-> "lit", tok |-> CloseThink],
       [op |-> "lit", tok |-> OpenAnswer],
       [op |-> "dotstar"],
       [op |-> "lit", tok |-> CloseAnswer],
       [op |-> "eol"] >>

\* '.' without re.DOTALL: any character but the newline.
DotMatches(tok) == tok # Newline

\* '$' without re.MULTILINE: at the end of the string, or just before a
\* newline that ends the string.
AtEnd(text, i) ==
    \/ i = Len(text) + 1
    \/ i = Len(text) /\ text[i] = Newline

\* Backtracking match of pat[p..] against text[i..]; the lazy '.*?' tries
\* the empty match first and then one more character.
RECURSIVE MatchFrom(_, _, _, _)
MatchFrom(pat, p, text, i) ==
    IF p > Len(pat) THEN TRUE
    ELSE LET e == pat[p] IN
         CASE e.op = "bol" -> i = 1 /\ MatchFrom(pat, p + 1, text, i)
           [] e.op = "eol" -> AtEnd(text, i) /\ MatchFrom(pat, p + 1, text, i)
           [] e.op = "lit" -> /\ i <= Len(text)
                              /\ text[i] = e.tok
                              /\ MatchFrom(pat, p + 1, text, i + 1)
           [] e.op = "dotstar" ->
                \/ MatchFrom(pat, p + 1, text, i)
                \/ /\ i <= Len(text)
                   /\ DotMatches(text[i])
                   /\ MatchFrom(pat, p, text, i + 1)

\* re.match(pattern, content): a match anchored at the start, or None.
re_match(pat, content) == MatchFrom(pat, 1, content, 1)

\* Mutant: the contents that do not match are printed.
format_reward_printing(completions) ==
    LET completion_contents == ContentsOf(completions)
        matches == [i \in 1..Len(completion_contents) |->
                        re_match(pattern, completion_contents[i])]
    IN  [rewards |-> [i \in 1..Len(matches) |->
                          IF matches[i] THEN "1.0" ELSE "0.0"],
         out |-> SelectSeq(completion_contents, LAMBDA c : ~re_match(pattern, c)),
         lib |-> <<>>]

format_reward(completions) ==
    LET completion_contents == ContentsOf(completions)
        matches == [i \in 1..Len(completion_contents) |->
                        re_match(pattern, completion_contents[i])]
    IN  [rewards |-> [i \in 1..Len(matches) |->
                          IF matches[i] THEN "1.0" ELSE "0.0"],
         out |-> <<>>,
         lib |-> <<>>]

\* ------------------------------------------------- reward_funcs_registry
reward_funcs_registry ==
    [name \in {"accuracy", "format"} |->
        IF name = "accuracy" THEN "accuracy_reward" ELSE "format_reward"]

SYSTEM_PROMPT == "A conversation between User and Assistant. ..."

\* ------------------------------------------------------------------ state
VARIABLES
    \* a caller of the reward functions (the trainer)
    completions,        \* the completions argument
    solution,           \* the solution argument (a dataset column)
    stdout,             \* what has been printed
    history,            \* one record per finished call: function, result, library calls
    \* main
    pc,                 \* position in main
    compiled_model_path, dataset_name, model_output_dir, reward_types, training_args,
    reward_funcs,       \* main's local
    dataset,            \* main's local
    trainer,            \* main's local
    events,             \* the library calls main has made, in order
    error               \* the exception main raised, or None

rewardVars == <<completions, solution, stdout, history>>
mainArgs == <<compiled_model_path, dataset_name, model_output_dir, reward_types, training_args>>
mainVars == <<pc, mainArgs, reward_funcs, dataset, trainer, events, error>>
vars == <<rewardVars, mainVars>>

\* ----------------------------------------------------------------- inputs
SeqsUpTo(S, n) == UNION {[1..k -> S] : k \in 0..n}

Formatted(R, A) == <<OpenThink>> \o R \o <<CloseThink, OpenAnswer>> \o A \o <<CloseAnswer>>

Contents ==
    { <<"1">>,
      Formatted(<<"x">>, <<"1">>),
      Formatted(<<"x">>, <<"2">>),
      Formatted(<<"x">>, <<"x">>),
      Formatted(<<"x", Newline, "x">>, <<"1">>),
      Formatted(<<"x">>, <<"1">>) \o <<Newline>> }

Completions == { << [role |-> "assistant", content |-> c] >> : c \in Contents }

Solutions == { <<"1">>, <<"2">>, <<"x">> }

\* ------------------------------------------- calls of the reward functions
CallAccuracyReward ==
    /\ Len(history) < MaxCalls
    /\ LET r == accuracy_reward(completions, solution) IN
       /\ stdout' = stdout \o r.out
       /\ history' = Append(history, [fn |-> "accuracy_reward",
                                      rewards |-> r.rewards, lib |-> r.lib])
    /\ UNCHANGED <<completions, solution, mainVars>>

CallFormatReward ==
    /\ Len(history) < MaxCalls
    /\ LET r == format_reward(completions) IN
       /\ stdout' = stdout \o r.out
       /\ history' = Append(history, [fn |-> "format_reward",
                                      rewards |-> r.rewards, lib |-> r.lib])
    /\ UNCHANGED <<completions, solution, mainVars>>

MainOff ==
    /\ pc = "off"
    /\ compiled_model_path = None /\ dataset_name = None /\ model_output_dir = None
    /\ reward_types = <<>> /\ training_args = None
    /\ reward_funcs = None /\ dataset = None /\ trainer = None
    /\ events = <<>> /\ error = None

InitReward ==
    /\ completions \in SeqsUpTo(Completions, MaxCompletions)
    /\ solution \in SeqsUpTo(Solutions, MaxCompletions)
    /\ stdout = <<>>
    /\ history = <<>>
    /\ MainOff

NextReward == CallAccuracyReward \/ CallFormatReward

SpecReward == InitReward /\ [][NextReward]_vars

\* ------------------------------------------------------------------- main
MaxRewardTypes == 2

\* A local of main that is not bound yet.
Unbound == <<>>

\* The datasets load_dataset can find (datasets library): splits of examples.
Example(p, s) == [problem |-> p, solution |-> s, messages |-> <<p, s>>]

HubNames == {"AI-MO/NuminaMath-TIR", "train-only", "no-problem", "has-prompt"}

Hub(name) ==
    CASE name = "AI-MO/NuminaMath-TIR" ->
            [train |-> <<Example("p1", "s1"), Example("p2", "s2")>>,
             test  |-> <<Example("p3", "s3")>>]
      [] name = "train-only" ->
            [train |-> <<Example("p1", "s1")>>]
      [] name = "no-problem" ->
            [train |-> <<Example("p1", "s1"), [question |-> "q", solution |-> "s"]>>,
             test  |-> <<>>]
      [] name = "has-prompt" ->
            [train |-> <<[problem |-> "p1", solution |-> "s1", prompt |-> "old"]>>,
             test  |-> <<Example("p2", "s2")>>,
             validation |-> <<Example("p3", "s3")>>]

\* Mutant: the user message carries the solution instead of the problem.
make_conversation_with_solution(example) ==
    [prompt |-> << [role |-> "system", content |-> SYSTEM_PROMPT],
                   [role |-> "user", content |-> example.solution] >>]

\* def make_conversation(example)
make_conversation(example) ==
    [prompt |-> << [role |-> "system", content |-> SYSTEM_PROMPT],
                   [role |-> "user", content |-> example.problem] >>]

\* example["problem"] raises KeyError when the example has no such field.
CanMakeConversation(example) == "problem" \in DOMAIN example

\* dataset.map(function) of a DatasetDict: every example of every split is
\* updated with the fields the function returns, in place and in order.
Updated(example, fields) ==
    [k \in (DOMAIN example) \cup (DOMAIN fields) |->
        IF k \in DOMAIN fields THEN fields[k] ELSE example[k]]

DatasetMap(ds) ==
    [split \in DOMAIN ds |->
        [i \in 1..Len(ds[split]) |->
            Updated(ds[split][i], make_conversation(ds[split][i]))]]

MapRaises(ds) ==
    \E split \in DOMAIN ds : \E i \in 1..Len(ds[split]) :
        ~CanMakeConversation(ds[split][i])

\* reward_funcs = [reward_funcs_registry[func] for func in reward_types]
ResolveRaises(types) ==
    \E i \in 1..Len(types) : types[i] \notin DOMAIN reward_funcs_registry

ResolveRewardFuncs(types) ==
    [i \in 1..Len(types) |-> reward_funcs_registry[types[i]]]

Call(fn, args, raised) == [fn |-> fn, args |-> args, raised |-> raised]

Raise(exc) == pc' = "failed" /\ error' = exc

\* Mutant: names that are not in the registry are skipped.
MainResolveSkipsUnknown ==
    /\ pc = "resolve"
    /\ reward_funcs' = [i \in 1..Len(SelectSeq(reward_types, LAMBDA t : t \in DOMAIN reward_funcs_registry)) |->
                           reward_funcs_registry[SelectSeq(reward_types, LAMBDA t : t \in DOMAIN reward_funcs_registry)[i]]]
    /\ pc' = "load"
    /\ UNCHANGED error
    /\ UNCHANGED <<mainArgs, dataset, trainer, events, rewardVars>>

\* line 95
MainResolve ==
    /\ pc = "resolve"
    /\ IF ResolveRaises(reward_types)
       THEN Raise("KeyError") /\ UNCHANGED reward_funcs
       ELSE /\ reward_funcs' = ResolveRewardFuncs(reward_types)
            /\ pc' = "load"
            /\ UNCHANGED error
    /\ UNCHANGED <<mainArgs, dataset, trainer, events, rewardVars>>

\* line 98
MainLoadDataset ==
    /\ pc = "load"
    /\ IF dataset_name \in HubNames
       THEN /\ dataset' = Hub(dataset_name)
            /\ events' = Append(events, Call("load_dataset", <<dataset_name>>, FALSE))
            /\ pc' = "map"
            /\ UNCHANGED error
       ELSE /\ events' = Append(events, Call("load_dataset", <<dataset_name>>, TRUE))
            /\ Raise("DatasetNotFoundError")
            /\ UNCHANGED dataset
    /\ UNCHANGED <<mainArgs, reward_funcs, trainer, rewardVars>>

\* line 109
MainMap ==
    /\ pc = "map"
    /\ IF MapRaises(dataset)
       THEN /\ events' = Append(events, Call("dataset.map", <<"make_conversation">>, TRUE))
            /\ Raise("KeyError")
            /\ UNCHANGED dataset
       ELSE /\ dataset' = DatasetMap(dataset)
            /\ events' = Append(events, Call("dataset.map", <<"make_conversation">>, FALSE))
            /\ pc' = "construct"
            /\ UNCHANGED error
    /\ UNCHANGED <<mainArgs, reward_funcs, trainer, rewardVars>>

\* The keyword arguments of the GRPOTrainer(...) call.
TrainerKwargs ==
    [model         |-> compiled_model_path,
     reward_funcs  |-> reward_funcs,
     train_dataset |-> dataset["train"],
     eval_dataset  |-> dataset["test"]]

\* GRPOTrainer.__init__ (library): keeps what it is given; args defaults to None.
NewTrainer(kwargs) ==
    [model         |-> kwargs.model,
     reward_funcs  |-> kwargs.reward_funcs,
     train_dataset |-> kwargs.train_dataset,
     eval_dataset  |-> kwargs.eval_dataset,
     args          |-> IF "args" \in DOMAIN kwargs THEN kwargs.args ELSE None,
     trained       |-> FALSE]

\* lines 112-117; the library call may raise
MainConstructTrainer ==
    /\ pc = "construct"
    /\ IF {"train", "test"} \subseteq DOMAIN dataset
       THEN \E ok \in BOOLEAN :
              /\ events' = Append(events, Call("GRPOTrainer", TrainerKwargs, ~ok))
              /\ IF ok
                 THEN trainer' = NewTrainer(TrainerKwargs) /\ pc' = "train" /\ UNCHANGED error
                 ELSE Raise("LibraryError") /\ UNCHANGED trainer
       ELSE Raise("KeyError") /\ UNCHANGED <<trainer, events>>
    /\ UNCHANGED <<mainArgs, reward_funcs, dataset, rewardVars>>

\* Mutant: main returns after train() without saving.
MainTrainSkipsSave ==
    /\ pc = "train"
    /\ \E ok \in BOOLEAN :
          /\ events' = Append(events, Call("train", <<>>, ~ok))
          /\ IF ok
             THEN trainer' = [trainer EXCEPT !.trained = TRUE] /\ pc' = "done" /\ UNCHANGED error
             ELSE Raise("LibraryError") /\ UNCHANGED trainer
    /\ UNCHANGED <<mainArgs, reward_funcs, dataset, rewardVars>>

\* line 120; the library call may raise
MainTrain ==
    /\ pc = "train"
    /\ \E ok \in BOOLEAN :
          /\ events' = Append(events, Call("train", <<>>, ~ok))
          /\ IF ok
             THEN trainer' = [trainer EXCEPT !.trained = TRUE] /\ pc' = "save" /\ UNCHANGED error
             ELSE Raise("LibraryError") /\ UNCHANGED trainer
    /\ UNCHANGED <<mainArgs, reward_funcs, dataset, rewardVars>>

\* line 122; the library call may raise
MainSaveModel ==
    /\ pc = "save"
    /\ \E ok \in BOOLEAN :
          /\ events' = Append(events, Call("save_model", <<model_output_dir>>, ~ok))
          /\ IF ok
             THEN pc' = "done" /\ UNCHANGED error
             ELSE Raise("LibraryError")
    /\ UNCHANGED <<mainArgs, reward_funcs, dataset, trainer, rewardVars>>

RewardOff == completions = <<>> /\ solution = <<>> /\ stdout = <<>> /\ history = <<>>

InitMain ==
    /\ pc = "resolve"
    /\ compiled_model_path \in {"/home/ubuntu/models/traced_qwen", "/tmp/other_model"}
    /\ dataset_name \in HubNames \cup {"no/such-dataset"}
    /\ model_output_dir \in {"/home/ubuntu/models/grpo_qwen", "/tmp/out"}
    /\ reward_types \in SeqsUpTo({"accuracy", "format", "length"}, MaxRewardTypes)
    /\ training_args \in {"{}", "{'logging_steps': 10}"}
    /\ reward_funcs = Unbound /\ dataset = Unbound /\ trainer = Unbound
    /\ events = <<>> /\ error = None
    /\ RewardOff

NextMain ==
    \/ MainResolve
    \/ MainLoadDataset
    \/ MainMap
    \/ MainConstructTrainer
    \/ MainTrain
    \/ MainSaveModel

SpecMain == InitMain /\ [][NextMain]_vars

\* =================================================================== claims
\* The calls of each reward function that have returned.
CallsOf(fn) == {k \in 1..Len(history) : history[k].fn = fn}
Pairs == 1..Min(Len(completions), Len(solution))
ContentAt(i) == completions[i][1].content

\* The text is "<think>" R "</think><answer>" A "</answer>" for some texts R, A.
IsPrescribedForm(text) ==
    \E i \in 2..(Len(text) - 2) :
        /\ text[1] = OpenThink
        /\ text[i] = CloseThink
        /\ text[i + 1] = OpenAnswer
        /\ text[Len(text)] = CloseAnswer

\* The lines accuracy_reward prints for these arguments: one per pair whose
\* gold solution does not parse, in the order of the pairs.
RECURSIVE UnparseableLines(_, _)
UnparseableLines(sols, n) ==
    IF n = 0 THEN <<>>
    ELSE UnparseableLines(sols, n - 1)
         \o (IF parse(sols[n]) = <<>>
             THEN << <<"Failed to parse gold solution: ", sols[n]>> >> ELSE <<>>)

\* C2 (as stated): a call of either reward function changes neither its
\* arguments nor the output stream, and repeats the result of every earlier
\* call of the same function.
C2_SideEffectFree ==
    [][ /\ completions' = completions
        /\ solution' = solution
        /\ stdout' = stdout
        /\ \A k \in 1..Len(history) :
              history[k].fn = history'[Len(history')].fn
                  => history[k].rewards = history'[Len(history')].rewards ]_vars

\* C2 (amended): a call of either reward function leaves its arguments
\* unchanged and repeats the result of every earlier call of the same
\* function; format_reward prints nothing; accuracy_reward prints exactly one
\* "Failed to parse gold solution" line per pair whose gold solution does not
\* parse, and nothing else.
C2_PrintsOnlyParseFailures ==
    [][ /\ completions' = completions
        /\ solution' = solution
        /\ history'[Len(history')].fn = "format_reward" => stdout' = stdout
        /\ history'[Len(history')].fn = "accuracy_reward"
              => stdout' = stdout \o UnparseableLines(solution, Cardinality(Pairs))
        /\ \A k \in 1..Len(history) :
              history[k].fn = history'[Len(history')].fn
                  => history[k].rewards = history'[Len(history')].rewards ]_vars

\* C2 witness: both functions have been called twice over, accuracy_reward on
\* a pair whose gold solution does not parse, and something was printed.
C2_Witness ==
    /\ Len(history) = 2
    /\ history[1].fn = "accuracy_reward" /\ history[2].fn = "accuracy_reward"
    /\ \E k \in Pairs : parse(solution[k]) = <<>>
    /\ Len(stdout) >= 2

\* C3 (as stated): format_reward scores a completion 1.0 when its content is
\* "<think>" R "</think><answer>" A "</answer>" for some texts R and A
\* (newlines allowed), and 0.0 when it is not.
C3_FormatRewardIffPrescribedForm ==
    \A c \in CallsOf("format_reward") : \A i \in 1..Len(completions) :
        /\ i <= Len(history[c].rewards)
        /\ history[c].rewards[i] =
              (IF IsPrescribedForm(ContentAt(i)) THEN "1.0" ELSE "0.0")

\* C4: every reward accuracy_reward returns is 0.0 or 1.0, and for a pair
\* whose gold solution parses the reward is 1.0 exactly when the verifier
\* judges the parsed content equal to the parsed gold solution.
C4_AccuracyIsVerifierVerdict ==
    \A c \in CallsOf("accuracy_reward") :
        /\ \A i \in 1..Len(history[c].rewards) : history[c].rewards[i] \in {"0.0", "1.0"}
        /\ \A k \in Pairs :
              parse(solution[k]) # <<>> =>
                  /\ k <= Len(history[c].rewards)
                  /\ verify(parse(ContentAt(k)), parse(solution[k]))
                        => history[c].rewards[k] = "1.0"
                  /\ ~verify(parse(ContentAt(k)), parse(solution[k]))
                        => history[c].rewards[k] = "0.0"
                  /\ \E l \in 1..Len(history[c].lib) :
                        /\ history[c].lib[l].fn = "verify"
                        /\ history[c].lib[l].pair = k
                        /\ history[c].lib[l].arg = <<parse(ContentAt(k)), parse(solution[k])>>

\* C4 witness: one call has scored a right answer 1.0 and a wrong one 0.0.
C4_Witness ==
    \E c \in CallsOf("accuracy_reward") : \E i, j \in Pairs :
        /\ parse(solution[i]) # <<>> /\ parse(solution[j]) # <<>>
        /\ history[c].rewards[i] = "1.0"
        /\ history[c].rewards[j] = "0.0"

\* C5: a pair whose gold solution does not parse is rewarded 1.0 whatever
\* the completion says, its content is neither parsed nor verified, and
\* every other pair of the call gets the reward it gets on its own.
C5_UnparseableGoldRewardedOne ==
    \A c \in CallsOf("accuracy_reward") : \A k \in Pairs :
        parse(solution[k]) = <<>> =>
            /\ k <= Len(history[c].rewards)
            /\ history[c].rewards[k] = "1.0"
            /\ \A l \in 1..Len(history[c].lib) :
                  history[c].lib[l].pair = k =>
                      /\ history[c].lib[l].fn = "parse"
                      /\ history[c].lib[l].of = "solution"
            /\ \A j \in Pairs \ {k} :
                  /\ j <= Len(history[c].rewards)
                  /\ history[c].rewards[j] =
                        accuracy_reward(<<completions[j]>>, <<solution[j]>>).rewards[1]

\* C5 witness: a call with an unparseable gold solution next to a pair that
\* was scored 0.0 and whose completion holds an answer.
C5_Witness ==
    \E c \in CallsOf("accuracy_reward") : \E k, j \in Pairs :
        /\ parse(solution[k]) = <<>>
        /\ parse(ContentAt(k)) # <<>>
        /\ history[c].rewards[k] = "1.0"
        /\ parse(solution[j]) # <<>>
        /\ history[c].rewards[j] = "0.0"

\* C8 (as stated): every call of a reward function returns one reward per
\* completion, the i-th being the score of the i-th completion (against the
\* i-th solution), whatever the length of solution.
C8_OneRewardPerCompletion ==
    \A c \in 1..Len(history) :
        /\ Len(history[c].rewards) = Len(completions)
        /\ \A i \in 1..Min(Len(history[c].rewards), Len(completions)) :
              /\ history[c].fn = "format_reward" =>
                    history[c].rewards[i] = format_reward(<<completions[i]>>).rewards[1]
              /\ history[c].fn = "accuracy_reward" /\ i <= Len(solution) =>
                    history[c].rewards[i] =
                        accuracy_reward(<<completions[i]>>, <<solution[i]>>).rewards[1]

\* C8 (amended): format_reward returns one reward per completion;
\* accuracy_reward returns min(len(completions), len(solution)) rewards, so
\* one per completion exactly when solution is at least as long as
\* completions.  In both the i-th reward is the score of the i-th completion
\* (against the i-th solution).
C8_OneRewardPerZippedPair ==
    \A c \in 1..Len(history) :
        /\ history[c].fn = "format_reward" =>
              /\ Len(history[c].rewards) = Len(completions)
              /\ \A i \in 1..Len(completions) :
                    history[c].rewards[i] = format_reward(<<completions[i]>>).rewards[1]
        /\ history[c].fn = "accuracy_reward" =>
              /\ Len(history[c].rewards) = Min(Len(completions), Len(solution))
              /\ Len(solution) >= Len(completions)
                    <=> Len(history[c].rewards) = Len(completions)
              /\ \A i \in Pairs :
                    history[c].rewards[i] =
                        accuracy_reward(<<completions[i]>>, <<solution[i]>>).rewards[1]

\* C8 witness: both functions have scored two completions that score
\* differently, accuracy_reward with fewer solutions than completions.
C8_Witness ==
    /\ Len(completions) = 2 /\ Len(solution) = 1
    /\ Len(history) = 2
    /\ history[1].fn = "accuracy_reward" /\ Len(history[1].rewards) = 1
    /\ history[2].fn = "format_reward"
    /\ history[2].rewards = <<"1.0", "0.0">>

\* ------------------------------------------------------------ claims on main
\* The order main is meant to call the library in.
Order == <<"load_dataset", "dataset.map", "GRPOTrainer", "train", "save_model">>
EventNames == [k \in 1..Len(events) |-> events[k].fn]
IsPrefix(a, b) == Len(a) <= Len(b) /\ \A k \in 1..Len(a) : a[k] = b[k]
Returned(fn) == \E k \in 1..Len(events) : events[k].fn = fn /\ ~events[k].raised
SaveCalls == {k \in 1..Len(events) : events[k].fn = "save_model"}
Ended == pc \in {"done", "failed"}
UnknownRewardType == \E i \in 1..Len(reward_types) : reward_types[i] \notin {"accuracy", "format"}

\* Every save_model call is made after train() returned, with main's model_output_dir.
SavedAfterTrain ==
    \A k \in SaveCalls :
        /\ events[k].args = <<model_output_dir>>
        /\ \E j \in 1..(k - 1) : events[j].fn = "train" /\ ~events[j].raised

\* C1 (as stated): in every run of main the library is called in the fixed
\* order load_dataset, dataset.map, GRPOTrainer, train, save_model, and
\* save_model is called exactly once, after train() returned, with main's
\* model_output_dir.
C1_EveryRunSavesOnce ==
    /\ IsPrefix(EventNames, Order)
    /\ SavedAfterTrain
    /\ Ended => EventNames = Order /\ Cardinality(SaveCalls) = 1

\* C1 (amended): the calls main has made are always an initial part of the
\* fixed order, and save_model is only called after train() returned and
\* with main's model_output_dir; a run that returns normally has made all
\* five calls, save_model exactly once; a run that raised has called
\* save_model at most once.
C1_OrderedAndSavedOnceOnReturn ==
    /\ IsPrefix(EventNames, Order)
    /\ SavedAfterTrain
    /\ Cardinality(SaveCalls) <= 1
    /\ pc = "done" =>
          /\ EventNames = Order
          /\ Cardinality(SaveCalls) = 1
          /\ \A k \in 1..Len(events) : ~events[k].raised
    /\ Cardinality(SaveCalls) = 1 => pc \in {"done", "failed"}

\* C1 witness: main has returned after all five calls.
C1_Witness == pc = "done" /\ Len(events) = 5 /\ trainer.trained

\* C6 (as stated): dataset_name reaches load_dataset, compiled_model_path
\* the trainer's model, model_output_dir save_model, the registry's functions
\* for reward_types the trainer, and training_args the trainer (an empty
\* training_args counts as reaching a trainer left with its default).
C6_ConfigurationPassedThrough ==
    \A k \in 1..Len(events) :
        /\ events[k].fn = "load_dataset" => events[k].args = <<dataset_name>>
        /\ events[k].fn = "save_model" => events[k].args = <<model_output_dir>>
        /\ events[k].fn = "GRPOTrainer" =>
              /\ events[k].args.model = compiled_model_path
              /\ events[k].args.reward_funcs = ResolveRewardFuncs(reward_types)
              /\ \/ training_args = "{}"
                 \/ /\ "args" \in DOMAIN events[k].args
                    /\ events[k].args.args = training_args
              /\ ~events[k].raised =>
                    /\ trainer.model = compiled_model_path
                    /\ trainer.reward_funcs = ResolveRewardFuncs(reward_types)
                    /\ trainer.args = training_args \/ training_args = "{}"

\* The dataset as load_dataset returned it.
Loaded == Hub(dataset_name)

\* C7: once dataset.map has returned, every split has the examples it had, in
\* the same number and order; each has a "prompt" of exactly the system
\* message with SYSTEM_PROMPT followed by the user message with the example's
\* "problem", and every other field it had, unchanged, and no further field.
C7_PromptAddedRestKept ==
    Returned("dataset.map") =>
        /\ DOMAIN dataset = DOMAIN Loaded
        /\ \A split \in DOMAIN Loaded :
              /\ Len(dataset[split]) = Len(Loaded[split])
              /\ \A i \in 1..Len(Loaded[split]) :
                    /\ dataset[split][i].prompt =
                          << [role |-> "system", content |-> SYSTEM_PROMPT],
                             [role |-> "user", content |-> Loaded[split][i].problem] >>
                    /\ Len(dataset[split][i].prompt) = 2
                    /\ DOMAIN dataset[split][i] = (DOMAIN Loaded[split][i]) \cup {"prompt"}
                    /\ \A f \in (DOMAIN Loaded[split][i]) \ {"prompt"} :
                          dataset[split][i][f] = Loaded[split][i][f]

\* C7 witness: dataset.map has returned on a dataset with two examples in a
\* split, and the second has its own problem in its prompt and its solution.
C7_Witness ==
    /\ Returned("dataset.map")
    /\ Len(dataset["train"]) = 2
    /\ dataset["train"][2].prompt[2].content = "p2"
    /\ dataset["train"][2].solution = "s2"

\* C9: once line 95 has run without raising, reward_funcs holds, position by
\* position, accuracy_reward for "accuracy" and format_reward for "format",
\* and that list is what the trainer is given; when some name of reward_types
\* is neither, main raises KeyError at line 95: no library call is made, no
\* dataset is loaded, no trainer is constructed, nothing is trained or saved.
C9_RegistryResolution ==
    /\ ~UnknownRewardType /\ pc # "resolve" =>
          /\ Len(reward_funcs) = Len(reward_types)
          /\ \A i \in 1..Len(reward_types) :
                /\ reward_types[i] = "accuracy" => reward_funcs[i] = "accuracy_reward"
                /\ reward_types[i] = "format" => reward_funcs[i] = "format_reward"
          /\ \A k \in 1..Len(events) :
                events[k].fn = "GRPOTrainer" => events[k].args.reward_funcs = reward_funcs
    /\ UnknownRewardType =>
          /\ pc \in {"resolve", "failed"}
          /\ pc = "failed" => error = "KeyError"
          /\ events = <<>>
          /\ dataset = Unbound
          /\ trainer = Unbound

\* C9 witness: main has raised on a reward_types whose first name is
\* registered and whose second is not.
C9_Witness ==
    /\ pc = "failed"
    /\ Len(reward_types) = 2
    /\ reward_types[1] = "format"
    /\ reward_types[2] = "length"

====
